---- MODULE Spec2Model ----
(***************************************************************************)
(* Model of the tamama boids simulation (src/src/boid.rs, config.rs,       *)
(* simulation.rs, ui.rs, main.rs).                                         *)
(*                                                                         *)
(* f32 values are modelled as fixed-point integers: the real number r is   *)
(* the integer r * Scale, and every arithmetic result is truncated toward  *)
(* zero.  Float literals of the source are kept as exact rationals         *)
(* (0.9 is 9/10).  sqrt is the integer square root, sin a rational         *)
(* approximation of the sine.                                              *)
(***************************************************************************)
EXTENDS Integers, Sequences, FiniteSets, TLC

\* ------------------------------------------------------------------ bounds
\* resolution of the fixed-point numbers: Scale units are 1.0
Scale == 100
\* frames of run_app's loop explored
MaxFrames == 16
\* terminal resize events explored
MaxResizes == 3
\* key presses (space, r) explored
MaxKeys == 1
\* seeds of the random source explored: 0 .. MaxSeed
MaxSeed == 0
\* largest index a caller of the public fields writes into boid_index
MaxLeaderIndex == 20
\* frames in which the user's events (resizes, keys) are explored
MaxEventFrames == 4

\* ------------------------------------------------------------- arithmetic
\* division truncating toward zero, as a float result cut to the resolution
TDiv(a, b) ==
    IF b < 0
      THEN (IF a >= 0 THEN -(a \div (-b)) ELSE (-a) \div (-b))
      ELSE (IF a >= 0 THEN a \div b ELSE -((-a) \div b))

\* the literal n/d as a fixed-point number
Fx(n, d) == TDiv(n * Scale, d)
\* a * (n/d) for a float literal n/d
MulRat(a, n, d) == TDiv(a * n, d)
\* a * b and a / b of two fixed-point numbers
FMul(a, b) == TDiv(a * b, Scale)
FDiv(a, b) == TDiv(a * Scale, b)

Abs(a) == IF a < 0 THEN -a ELSE a
FMax(a, b) == IF a >= b THEN a ELSE b
FMin(a, b) == IF a <= b THEN a ELSE b

\* a power of two at most twice the square root of n, and above it
SqrtGuess(n) ==
    IF n < 65536
      THEN
        IF n < 256
          THEN
            IF n < 16
              THEN
                IF n < 4
                  THEN
                    2
                  ELSE
                    4
              ELSE
                IF n < 64
                  THEN
                    8
                  ELSE
                    16
          ELSE
            IF n < 4096
              THEN
                IF n < 1024
                  THEN
                    32
                  ELSE
                    64
              ELSE
                IF n < 16384
                  THEN
                    128
                  ELSE
                    256
      ELSE
        IF n < 16777216
          THEN
            IF n < 1048576
              THEN
                IF n < 262144
                  THEN
                    512
                  ELSE
                    1024
              ELSE
                IF n < 4194304
                  THEN
                    2048
                  ELSE
                    4096
          ELSE
            IF n < 268435456
              THEN
                IF n < 67108864
                  THEN
                    8192
                  ELSE
                    16384
              ELSE
                IF n < 1073741824
                  THEN
                    32768
                  ELSE
                    46340

\* one step of Newton's iteration for the square root of n
SqrtStep(n, g) == (g + n \div g) \div 2

\* f32::sqrt: floor of the square root
Sqrt(n) ==
    IF n <= 0 THEN 0
    ELSE
      LET g == SqrtStep(n, SqrtStep(n, SqrtStep(n, SqrtStep(n, SqrtGuess(n)))))
      IN  IF g * g > n THEN g - 1 ELSE g

\* pi as a fixed-point number
Pi == Fx(355, 113)

\* sine of a fixed-point angle in [0, pi] (Bhaskara's rational form)
SinHalf(t) ==
    LET p == t * (Pi - t)
    IN  TDiv(16 * p * Scale, 5 * Pi * Pi - 4 * p)

\* f32::sin
Sin(t) ==
    LET r == t % (2 * Pi)
    IN  IF r <= Pi THEN SinHalf(r) ELSE -SinHalf(r - Pi)

\* f32::cos
Cos(t) == Sin(t + Pi \div 2)

\* ------------------------------------------------------------------- Vec2
Vec(a, b) == [x |-> a, y |-> b]
Zero == Vec(0, 0)
VAdd(a, b) == Vec(a.x + b.x, a.y + b.y)
VSub(a, b) == Vec(a.x - b.x, a.y - b.y)
VMul(a, s) == Vec(FMul(a.x, s), FMul(a.y, s))
VDiv(a, s) == Vec(FDiv(a.x, s), FDiv(a.y, s))
VMulRat(a, n, d) == Vec(MulRat(a.x, n, d), MulRat(a.y, n, d))

magnitude(v) == Sqrt(v.x * v.x + v.y * v.y)
magnitude_squared(v) == v.x * v.x + v.y * v.y

normalize(v) ==
    LET mag == magnitude(v)
    IN  IF mag > 0 THEN Vec(FDiv(v.x, mag), FDiv(v.y, mag)) ELSE v

\* limit as a bug would have it: the cap is never applied
limit_off(v, max) == v

\* Vec2::limit
limit(v, max) ==
    IF magnitude_squared(v) > max * max THEN VMul(normalize(v), max) ELSE v

distance_to(a, b) ==
    LET dx == a.x - b.x
        dy == a.y - b.y
    IN  Sqrt(dx * dx + dy * dy)

\* ----------------------------------------------------------------- Config
\* a terminal or layout rectangle (ratatui Rect), in character cells
Rect(w, h) == [width |-> w, height |-> h]

with_terminal_size(terminal_size) ==
    LET canvas_width == FMax(MulRat(terminal_size.width * Scale, 3, 4), 20 * Scale)
        canvas_height == FMax(terminal_size.height * Scale, 10 * Scale)
        area == FMul(canvas_width, canvas_height)
        num_boids == TDiv(FMin(FMax(MulRat(area, 8, 1000), 15 * Scale), 100 * Scale), Scale)
        density_multiplier ==
            FMin(FMax(FDiv(num_boids * 1000 * Scale, area), Fx(1, 2)), Fx(2, 1))
    IN  [ width |-> canvas_width,
          height |-> canvas_height,
          num_boids |-> num_boids,
          max_speed |-> Fx(3, 2),
          max_force |-> Fx(8, 100),
          separation_radius |-> FMul(Fx(3, 1), density_multiplier),
          alignment_radius |-> Fx(5, 1),
          cohesion_radius |-> Fx(5, 1),
          separation_weight |-> Fx(2, 1),
          alignment_weight |-> Fx(12, 10),
          cohesion_weight |-> Fx(1, 1) ]

\* ------------------------------------------------------------ random source
\* thread_rng: a generator state stepped once per drawn value
RngStates == 0 .. 63
RngNext(r) == (r * 5 + 3) % 64

\* gen_range(0.0..max) of generator state r: a value in [0, max)
gen_range(r, max) == TDiv(r * max, 64)

\* gen_range panics on an empty range (0.0..max with max <= 0)
RangeEmpty(max) == max <= 0

\* ------------------------------------------------------------------- Boid
\* Boid::new with the generator in state r; the generator ends in
\* RngNext(RngNext(RngNext(r)))
BoidNew(config, r) ==
    LET r1 == RngNext(r)
        r2 == RngNext(r1)
        r3 == RngNext(r2)
        angle == gen_range(r3, 2 * Pi)
    IN  [ position |-> Vec(gen_range(r1, config.width), gen_range(r2, config.height)),
          velocity |-> VMul(Vec(Cos(angle), Sin(angle)), MulRat(config.max_speed, 1, 2)),
          acceleration |-> Zero,
          is_leader |-> FALSE ]

\* Boid::new panics when Vec2::random is asked for an empty range
BoidNewPanics(config) == RangeEmpty(config.width) \/ RangeEmpty(config.height)

new_leader(config) ==
    [ position |-> Vec(MulRat(config.width, 1, 10), MulRat(config.height, 1, 2)),
      velocity |-> Vec(MulRat(config.max_speed, 6, 10), 0),
      acceleration |-> Zero,
      is_leader |-> TRUE ]

apply_force(b, force) == [b EXCEPT !.acceleration = VAdd(b.acceleration, force)]

bounce_off_boundaries(b, config) ==
    LET margin == Fx(1, 1)
        px == b.position.x
        py == b.position.y
        bx == IF px < margin
                THEN [p |-> margin, v |-> Abs(b.velocity.x)]
                ELSE IF px > config.width - margin
                  THEN [p |-> config.width - margin, v |-> -Abs(b.velocity.x)]
                  ELSE [p |-> px, v |-> b.velocity.x]
        by == IF py < margin
                THEN [p |-> margin, v |-> Abs(b.velocity.y)]
                ELSE IF py > config.height - margin
                  THEN [p |-> config.height - margin, v |-> -Abs(b.velocity.y)]
                  ELSE [p |-> py, v |-> b.velocity.y]
    IN  [b EXCEPT !.position = Vec(bx.p, by.p), !.velocity = Vec(bx.v, by.v)]

\* Boid::update
boid_update(b, config) ==
    LET v1 == limit(VAdd(b.velocity, b.acceleration), config.max_speed)
        moved == [b EXCEPT !.velocity = v1,
                           !.position = VAdd(b.position, v1),
                           !.acceleration = Zero]
    IN  bounce_off_boundaries(moved, config)

\* ------------------------------------------------------------- LeaderBird
\* Option<LeaderBird> is a sequence of no or one record
None == << >>
Some(l) == << l >>
IsSome(o) == Len(o) > 0

LeaderBirdNew(boid_index, config) ==
    [ boid_index |-> boid_index,
      direction |-> "ToRight",
      target_x |-> MulRat(config.width, 9, 10),
      sine_time |-> 0,
      sine_frequency |-> Fx(2, 100),
      sine_amplitude |-> MulRat(config.height, 3, 10) ]

\* the boid at the 0-based index i
At(boids, i) == boids[i + 1]

\* ------------------------------------------------------------- Simulation
\* a Simulation value: its three fields
Sim(b, c, l) == [boids |-> b, config |-> c, leader |-> l]

\* the test the loops of the three rules share: the 0-based indices i of the
\* boids with `i != index` and `distance > 0.0 && distance < radius`
Neighbours(s, index, radius) ==
    { i \in 0 .. Len(s.boids) - 1 :
        /\ i # index
        /\ LET distance == distance_to(At(s.boids, index).position,
                                       At(s.boids, i).position)
           IN  distance > 0 /\ distance < radius }

\* `+=` of the vectors f[i] over the indices i in the set is
RECURSIVE VSum(_, _)
VSum(f, is) ==
    IF is = {} THEN Zero
    ELSE LET i == CHOOSE k \in is : \A m \in is : k <= m
         IN  VAdd(f[i], VSum(f, is \ {i}))

separation(s, index) ==
    LET current_boid == At(s.boids, index)
        near == Neighbours(s, index, s.config.separation_radius)
        diff == [ i \in near |->
                    VDiv(normalize(VSub(current_boid.position, At(s.boids, i).position)),
                         distance_to(current_boid.position, At(s.boids, i).position)) ]
        steer == VSum(diff, near)
        count == Cardinality(near)
    IN  IF count > 0
          THEN limit(VSub(VMul(normalize(VDiv(steer, count * Scale)),
                               s.config.max_speed),
                          current_boid.velocity),
                     s.config.max_force)
          ELSE steer

alignment(s, index) ==
    LET current_boid == At(s.boids, index)
        near == Neighbours(s, index, s.config.alignment_radius)
        sum == VSum([i \in near |-> At(s.boids, i).velocity], near)
        count == Cardinality(near)
    IN  IF count > 0
          THEN limit(VSub(VMul(normalize(VDiv(sum, count * Scale)),
                               s.config.max_speed),
                          current_boid.velocity),
                     s.config.max_force)
          ELSE Zero

seek(s, boid, target) ==
    LET desired == VMul(normalize(VSub(target, boid.position)), s.config.max_speed)
    IN  limit(VSub(desired, boid.velocity), s.config.max_force)

cohesion(s, index) ==
    LET current_boid == At(s.boids, index)
        near == Neighbours(s, index, s.config.cohesion_radius)
        sum == VSum([i \in near |-> At(s.boids, i).position], near)
        count == Cardinality(near)
    IN  IF count > 0
          THEN seek(s, current_boid, VDiv(sum, count * Scale))
          ELSE Zero

\* update_leader_state as a bug would have it: a flip keeps the old target_x
update_leader_state_stale_target(s) ==
    IF IsSome(s.leader) /\ s.leader[1].boid_index < Len(s.boids)
      THEN
        LET leader == s.leader[1]
            leader_boid == At(s.boids, leader.boid_index)
            timed == [leader EXCEPT !.sine_time = leader.sine_time + leader.sine_frequency]
        IN  IF leader.direction = "ToRight"
              THEN IF leader_boid.position.x >= MulRat(s.config.width, 9, 10)
                     THEN Some([timed EXCEPT !.direction = "ToLeft"])
                     ELSE Some(timed)
              ELSE IF leader_boid.position.x <= MulRat(s.config.width, 1, 10)
                     THEN Some([timed EXCEPT !.direction = "ToRight"])
                     ELSE Some(timed)
      ELSE s.leader

update_leader_state(s) ==
    IF IsSome(s.leader) /\ s.leader[1].boid_index < Len(s.boids)
      THEN
        LET leader == s.leader[1]
            leader_boid == At(s.boids, leader.boid_index)
            timed == [leader EXCEPT !.sine_time = leader.sine_time + leader.sine_frequency]
        IN  IF leader.direction = "ToRight"
              THEN IF leader_boid.position.x >= MulRat(s.config.width, 9, 10)
                     THEN Some([timed EXCEPT !.direction = "ToLeft",
                                             !.target_x = MulRat(s.config.width, 1, 10)])
                     ELSE Some(timed)
              ELSE IF leader_boid.position.x <= MulRat(s.config.width, 1, 10)
                     THEN Some([timed EXCEPT !.direction = "ToRight",
                                             !.target_x = MulRat(s.config.width, 9, 10)])
                     ELSE Some(timed)
      ELSE s.leader

leader_patrol_force(s, index) ==
    IF IsSome(s.leader) /\ index = s.leader[1].boid_index
      THEN
        LET leader == s.leader[1]
            boid == At(s.boids, index)
            center_y == MulRat(s.config.height, 1, 2)
            sine_y == center_y + FMul(Sin(leader.sine_time), leader.sine_amplitude)
            target == Vec(leader.target_x, FMin(FMax(sine_y, 0), s.config.height))
            desired == VSub(target, boid.position)
        IN  IF magnitude(desired) > 0
              THEN limit(VSub(VMul(normalize(desired), s.config.max_speed), boid.velocity),
                         s.config.max_force)
              ELSE Zero
      ELSE Zero

\* follow_leader_force indexes boids[leader.boid_index] without a check
follow_leader_panics(s) ==
    IsSome(s.leader) /\ s.leader[1].boid_index >= Len(s.boids)

follow_leader_force(s, index) ==
    IF IsSome(s.leader)
      THEN
        LET leader == s.leader[1]
            leader_boid == At(s.boids, leader.boid_index)
            current_boid == At(s.boids, index)
            follow_distance == Fx(8, 1)
            heading == normalize(leader_boid.velocity)
            offset == Vec(FMul(-heading.x, follow_distance),
                          FMul(-heading.y, follow_distance))
            target_position == VAdd(leader_boid.position, offset)
            desired == VSub(target_position, current_boid.position)
        IN  IF magnitude(desired) > 0
              THEN limit(VSub(VMulRat(VMul(normalize(desired), s.config.max_speed), 8, 10),
                              current_boid.velocity),
                         MulRat(s.config.max_force, 7, 10))
              ELSE Zero
      ELSE Zero

\* the force as a bug would have it: the leader is steered like the flock
boid_force_flock(s, i) ==
    VAdd(VAdd(VAdd(VMul(separation(s, i), s.config.separation_weight),
                   VMul(alignment(s, i), s.config.alignment_weight)),
              VMul(cohesion(s, i), s.config.cohesion_weight)),
         VMulRat(follow_leader_force(s, i), 3, 2))

\* the force update computes for the boid at index i (body of the first loop)
boid_force(s, i) ==
    IF At(s.boids, i).is_leader
      THEN leader_patrol_force(s, i)
      ELSE VAdd(VAdd(VAdd(VMul(separation(s, i), s.config.separation_weight),
                          VMul(alignment(s, i), s.config.alignment_weight)),
                     VMul(cohesion(s, i), s.config.cohesion_weight)),
                VMulRat(follow_leader_force(s, i), 3, 2))

\* first loop of update: the forces of all boids, in index order
RECURSIVE forces_loop(_, _, _)
forces_loop(s, i, forces) ==
    IF i >= Len(s.boids) THEN forces
    ELSE forces_loop(s, i + 1, Append(forces, boid_force(s, i)))

\* second loop of update: apply force i to boid i and integrate it
RECURSIVE apply_loop(_, _, _)
apply_loop(s, forces, i) ==
    IF i >= Len(forces) THEN s
    ELSE apply_loop(
           [s EXCEPT !.boids[i + 1] =
               boid_update(apply_force(At(s.boids, i), At(forces, i)), s.config)],
           forces, i + 1)

\* Simulation::update panics iff a non-leader boid meets the unchecked index
update_panics(s) ==
    \E i \in 0 .. Len(s.boids) - 1 :
        ~At(s.boids, i).is_leader /\ follow_leader_panics(s)

\* update as a bug would have it: one loop computes the force of a boid and
\* integrates it before the next boid's force is computed
RECURSIVE single_loop(_, _)
single_loop(s, i) ==
    IF i >= Len(s.boids) THEN s
    ELSE single_loop(
           [s EXCEPT !.boids[i + 1] =
               boid_update(apply_force(At(s.boids, i), boid_force(s, i)), s.config)],
           i + 1)

update_single_loop(s) ==
    single_loop([s EXCEPT !.leader = update_leader_state(s)], 0)

\* Simulation::update
update(s) ==
    LET s1 == [s EXCEPT !.leader = update_leader_state(s)]
        forces == forces_loop(s1, 0, << >>)
    IN  apply_loop(s1, forces, 0)

\* `for _ in from..to { boids.push(Boid::new(&config)) }` with the generator
\* in state r
RECURSIVE push_boids(_, _, _, _, _)
push_boids(boids, config, r, from, to) ==
    IF from >= to THEN [boids |-> boids, rng |-> r]
    ELSE push_boids(Append(boids, BoidNew(config, r)), config,
                    RngNext(RngNext(RngNext(r))), from + 1, to)

\* new_with_size as a bug would have it: the loop runs 0..num_boids
new_with_size_from_zero(terminal_size, r) ==
    LET config == with_terminal_size(terminal_size)
        pushed == push_boids(<< new_leader(config) >>, config, r, 0, config.num_boids)
    IN  [ sim |-> Sim(pushed.boids, config, Some(LeaderBirdNew(0, config))),
          rng |-> pushed.rng ]

\* Simulation::new_with_size; the result and the generator state it leaves
new_with_size(terminal_size, r) ==
    LET config == with_terminal_size(terminal_size)
        pushed == push_boids(<< new_leader(config) >>, config, r, 1, config.num_boids)
    IN  [ sim |-> Sim(pushed.boids, config, Some(LeaderBirdNew(0, config))),
          rng |-> pushed.rng ]

\* Simulation::reset reaches Boid::new, which panics on an empty arena
reset_panics(s) == 1 < s.config.num_boids /\ BoidNewPanics(s.config)

\* Config::default
ConfigDefault ==
    [ width |-> Fx(80, 1),
      height |-> Fx(24, 1),
      num_boids |-> 25,
      max_speed |-> Fx(3, 2),
      max_force |-> Fx(8, 100),
      separation_radius |-> Fx(3, 1),
      alignment_radius |-> Fx(5, 1),
      cohesion_radius |-> Fx(5, 1),
      separation_weight |-> Fx(2, 1),
      alignment_weight |-> Fx(12, 10),
      cohesion_weight |-> Fx(1, 1) ]

\* Simulation::new (no caller in the program)
new(r) ==
    LET pushed == push_boids(<< new_leader(ConfigDefault) >>, ConfigDefault, r,
                             1, ConfigDefault.num_boids)
    IN  [ sim |-> Sim(pushed.boids, ConfigDefault, Some(LeaderBirdNew(0, ConfigDefault))),
          rng |-> pushed.rng ]

\* reset as a bug would have it: no leader is pushed first
reset_without_leader(s, r) ==
    IF reset_panics(s)
      THEN [sim |-> [s EXCEPT !.boids = << >>], rng |-> r]
      ELSE
        LET pushed == push_boids(<< >>, s.config, r, 0, s.config.num_boids)
        IN  [ sim |-> Sim(pushed.boids, s.config, Some(LeaderBirdNew(0, s.config))),
              rng |-> pushed.rng ]

\* reset as a bug would have it: the leader state is dropped, not recreated
reset_leader_none(s, r) ==
    IF reset_panics(s)
      THEN [sim |-> [s EXCEPT !.boids = << new_leader(s.config) >>], rng |-> r]
      ELSE
        LET pushed == push_boids(<< new_leader(s.config) >>, s.config, r,
                                 1, s.config.num_boids)
        IN  [ sim |-> Sim(pushed.boids, s.config, None),
              rng |-> pushed.rng ]

\* Simulation::reset; when it panics, the state at the panic
reset(s, r) ==
    IF reset_panics(s)
      THEN [sim |-> [s EXCEPT !.boids = << new_leader(s.config) >>], rng |-> r]
      ELSE
        LET pushed == push_boids(<< new_leader(s.config) >>, s.config, r,
                                 1, s.config.num_boids)
        IN  [ sim |-> Sim(pushed.boids, s.config, Some(LeaderBirdNew(0, s.config))),
              rng |-> pushed.rng ]

\* truncate as a bug would have it: keeps the last len elements
truncate_front(boids, len) ==
    IF len < Len(boids) THEN SubSeq(boids, Len(boids) - len + 1, Len(boids)) ELSE boids

\* Vec::truncate
truncate(boids, len) == IF len < Len(boids) THEN SubSeq(boids, 1, len) ELSE boids

\* adjust_boid_count_for_size as a bug would have it: the growing loop is
\* `current_count..=target_count` and runs when the counts are equal too
adjust_boid_count_inclusive(s, terminal_size, r) ==
    LET new_config == with_terminal_size(terminal_size)
        target_count == new_config.num_boids
        current_count == Len(s.boids)
        pushed ==
            IF target_count >= current_count
              THEN push_boids(s.boids, new_config, r, current_count, target_count + 1)
              ELSE IF target_count > 0
                THEN [boids |-> truncate(s.boids, target_count), rng |-> r]
                ELSE [boids |-> s.boids, rng |-> r]
        leader ==
            IF IsSome(s.leader)
              THEN Some([s.leader[1] EXCEPT
                     !.target_x = IF s.leader[1].direction = "ToRight"
                                    THEN MulRat(new_config.width, 9, 10)
                                    ELSE MulRat(new_config.width, 1, 10),
                     !.sine_amplitude = MulRat(new_config.height, 3, 10)])
              ELSE s.leader
    IN  [sim |-> Sim(pushed.boids, new_config, leader), rng |-> pushed.rng]

\* Simulation::adjust_boid_count_for_size
adjust_boid_count_for_size(s, terminal_size, r) ==
    LET new_config == with_terminal_size(terminal_size)
        target_count == new_config.num_boids
        current_count == Len(s.boids)
        pushed ==
            IF target_count > current_count
              THEN push_boids(s.boids, new_config, r, current_count, target_count)
              ELSE IF target_count < current_count /\ target_count > 0
                THEN [boids |-> truncate(s.boids, target_count), rng |-> r]
                ELSE [boids |-> s.boids, rng |-> r]
        leader ==
            IF IsSome(s.leader)
              THEN Some([s.leader[1] EXCEPT
                     !.target_x = IF s.leader[1].direction = "ToRight"
                                    THEN MulRat(new_config.width, 9, 10)
                                    ELSE MulRat(new_config.width, 1, 10),
                     !.sine_amplitude = MulRat(new_config.height, 3, 10)])
              ELSE s.leader
    IN  [sim |-> Sim(pushed.boids, new_config, leader), rng |-> pushed.rng]

\* -------------------------------------------------------------------- App
\* u16::saturating_sub
saturating_sub(a, b) == IF a >= b THEN a - b ELSE 0

\* chunks[0] of App::render: the left 75% of the frame
canvas_area(frame) == Rect((frame.width * 75) \div 100, frame.height)

\* App::update_simulation_bounds takes the resize branch
bounds_changed(s, area) ==
    LET canvas_width == saturating_sub(area.width, 2) * Scale
        canvas_height == saturating_sub(area.height, 2) * Scale
        width_diff == Abs(s.config.width - canvas_width)
        height_diff == Abs(s.config.height - canvas_height)
    IN  width_diff > 5 * Scale \/ height_diff > 3 * Scale

update_simulation_bounds(s, area, r) ==
    LET canvas_width == saturating_sub(area.width, 2) * Scale
        canvas_height == saturating_sub(area.height, 2) * Scale
    IN  IF bounds_changed(s, area)
          THEN adjust_boid_count_for_size(
                 s, Rect(TDiv(MulRat(canvas_width, 4, 3), Scale),
                         TDiv(canvas_height, Scale)), r)
          ELSE [ sim |-> [s EXCEPT !.config.width = canvas_width,
                                   !.config.height = canvas_height],
                 rng |-> r ]

\* ------------------------------------------------------------ environment
\* the terminal sizes the window is dragged through, smallest first
TerminalSizes ==
    << Rect(24, 2), Rect(24, 3), Rect(24, 6), Rect(24, 9), Rect(204, 16) >>

\* the sizes the program is started at: the two largest
StartTerms == {Len(TerminalSizes) - 1, Len(TerminalSizes)}

\* ------------------------------------------------------------------ state
VARIABLES
    boids,      \* Simulation.boids
    config,     \* Simulation.config
    leader,     \* Simulation.leader
    paused,     \* App.paused
    rng,        \* state of the random source
    term,       \* index in TerminalSizes of the size the last frame had
    pc,         \* where run_app's loop stands: "render", "event", "update",
                \* or "panicked" once an operation has panicked
    op,         \* the operation that ran last
    frame,      \* iterations of run_app's loop completed
    nResizes,   \* terminal size changes seen
    nKeys       \* key presses handled

vars == << boids, config, leader, paused, rng, term, pc, op, frame, nResizes, nKeys >>

\* the Simulation of the current state
sim == Sim(boids, config, leader)

SetSim(s) == boids' = s.boids /\ config' = s.config /\ leader' = s.leader

\* main: App::new(terminal.size()) with an unknown seed, then run_app
Init ==
    \E t \in StartTerms, seed \in 0 .. MaxSeed :
        LET made == new_with_size(TerminalSizes[t], seed)
        IN  /\ boids = made.sim.boids
            /\ config = made.sim.config
            /\ leader = made.sim.leader
            /\ rng = made.rng
            /\ term = t
            /\ paused = FALSE
            /\ pc = "render"
            /\ op = "new"
            /\ frame = 0
            /\ nResizes = 0
            /\ nKeys = 0

\* the user's events are explored in the first MaxEventFrames frames
EventsOpen == frame < MaxEventFrames

\* a run the user has touched is followed up to the end of those frames,
\* an untouched run up to MaxFrames
FrameOpen ==
    IF nResizes + nKeys = 0 THEN frame < MaxFrames
    ELSE frame < MaxEventFrames

\* terminal.draw(|f| app.render(f)): the frame has the size of the last
\* frame, or the user has dragged the window one size up or down;
\* App::update_simulation_bounds
Render ==
    /\ pc = "render"
    /\ FrameOpen
    /\ \E t \in {term - 1, term, term + 1} :
          /\ t \in 1 .. Len(TerminalSizes)
          /\ t # term => EventsOpen /\ nResizes < MaxResizes
          /\ term' = t
          /\ nResizes' = IF t # term THEN nResizes + 1 ELSE nResizes
          /\ LET area == canvas_area(TerminalSizes[t])
                 done == update_simulation_bounds(sim, area, rng)
             IN  /\ SetSim(done.sim)
                 /\ rng' = done.rng
                 /\ op' = IF bounds_changed(sim, area) THEN "resize" ELSE "bounds"
    /\ pc' = "event"
    /\ UNCHANGED << paused, frame, nKeys >>

\* event::poll times out, or the key is none of q, space, f, r
NoKey ==
    /\ pc = "event"
    /\ pc' = "update"
    /\ op' = "none"
    /\ UNCHANGED << boids, config, leader, paused, rng, term, frame, nResizes, nKeys >>

\* key ' ': App::toggle_pause
TogglePause ==
    /\ pc = "event"
    /\ EventsOpen
    /\ nKeys < MaxKeys
    /\ paused' = ~paused
    /\ nKeys' = nKeys + 1
    /\ pc' = "update"
    /\ op' = "pause"
    /\ UNCHANGED << boids, config, leader, rng, term, frame, nResizes >>

\* key 'r': App::reset, Simulation::reset
Reset ==
    /\ pc = "event"
    /\ EventsOpen
    /\ nKeys < MaxKeys
    /\ LET done == reset(sim, rng)
       IN  SetSim(done.sim) /\ rng' = done.rng
    /\ pc' = IF reset_panics(sim) THEN "panicked" ELSE "update"
    /\ nKeys' = nKeys + 1
    /\ op' = "reset"
    /\ UNCHANGED << paused, term, frame, nResizes >>

\* `if !app.paused { app.update() }`: App::update, Simulation::update
Tick ==
    /\ pc = "update"
    /\ ~paused
    /\ IF update_panics(sim)
         THEN pc' = "panicked" /\ UNCHANGED << boids, config, leader >>
         ELSE pc' = "render" /\ SetSim(update(sim))
    /\ frame' = frame + 1
    /\ op' = "update"
    /\ UNCHANGED << paused, rng, term, nResizes, nKeys >>

\* the same statement while paused: the frame ends without a tick
SkipTick ==
    /\ pc = "update"
    /\ paused
    /\ pc' = "render"
    /\ frame' = frame + 1
    /\ op' = "skip"
    /\ UNCHANGED << boids, config, leader, paused, rng, term, nResizes, nKeys >>

Next == Render \/ NoKey \/ TogglePause \/ Reset \/ Tick \/ SkipTick

Spec == Init /\ [][Next]_vars

\* ----------------------------------------------------------------- claims
\* the 1-based indices of the boids
Agents == 1 .. Len(boids)

\* a tick has just completed
Ticked == op = "update" /\ pc # "panicked"

\* C1: after every tick every agent's position lies in
\* [margin, width - margin] x [margin, height - margin], margin = 1
C1_PositionWithinMargin ==
    Ticked =>
      \A i \in Agents :
          /\ Fx(1, 1) <= boids[i].position.x
          /\ boids[i].position.x <= config.width - Fx(1, 1)
          /\ Fx(1, 1) <= boids[i].position.y
          /\ boids[i].position.y <= config.height - Fx(1, 1)

C3_OneLeaderAtIndexZero ==
    /\ Len(boids) >= 1
    /\ \A i \in Agents : boids[i].is_leader <=> i = 1

\* C3 witness: a tick after both a resize and a reset
C3_Witness ==
    /\ Ticked
    /\ nResizes > 0
    /\ nKeys > 0
    /\ Len(boids) > 1

\* a caller of the public fields: any index in the leader's boid_index
\* (Simulation.leader and LeaderBird.boid_index are pub), then run_app's
\* loop without user events
InitPub ==
    \E t \in StartTerms, seed \in 0 .. MaxSeed,
       index \in 0 .. MaxLeaderIndex :
        LET made == new_with_size(TerminalSizes[t], seed)
        IN  /\ boids = made.sim.boids
            /\ config = made.sim.config
            /\ leader = Some([made.sim.leader[1] EXCEPT !.boid_index = index])
            /\ rng = made.rng
            /\ term = t
            /\ paused = FALSE
            /\ pc = "render"
            /\ op = "new"
            /\ frame = 0
            /\ nResizes = MaxResizes
            /\ nKeys = MaxKeys

NextPub == Render \/ NoKey \/ Tick

SpecPub == InitPub /\ [][NextPub]_vars

\* C4: a resize to n > 0 agents leaves exactly n agents and the agent at
\* index 0 is the leader it was; agents are appended as non-leaders at the
\* tail when growing and removed from the tail only when shrinking
C4_ResizeKeepsLeader ==
    [][ op' = "resize" =>
          /\ config'.num_boids > 0
          /\ Len(boids') = config'.num_boids
          /\ boids'[1] = boids[1]
          /\ boids'[1].is_leader
          /\ \A i \in 1 .. Len(boids') :
                IF i <= Len(boids) THEN boids'[i] = boids[i]
                ELSE ~boids'[i].is_leader ]_vars

\* C4 witness: a resize has grown the population to 16 agents (no
\* construction yields 16)
C4_Witness ==
    /\ op = "resize"
    /\ Len(boids) = 16
    /\ boids[1].is_leader

\* C5: a tick turns ToRight into ToLeft iff the leader's pre-tick
\* x >= width*0.9 (target_x becomes width*0.1), ToLeft into ToRight iff
\* x <= width*0.1 (target_x becomes width*0.9), and otherwise leaves
\* direction and target_x alone
C5_DirectionFlips ==
    [][ (op' = "update" /\ pc' # "panicked") =>
          LET l == leader[1]
              n == leader'[1]
              x == At(boids, l.boid_index).position.x
              right == MulRat(config.width, 9, 10)
              left == MulRat(config.width, 1, 10)
          IN  IF l.direction = "ToRight" /\ x >= right
                THEN n.direction = "ToLeft" /\ n.target_x = left
                ELSE IF l.direction = "ToLeft" /\ x <= left
                  THEN n.direction = "ToRight" /\ n.target_x = right
                  ELSE n.direction = l.direction /\ n.target_x = l.target_x ]_vars

\* C5 witness: a tick has left the direction ToLeft (it starts ToRight)
C5_Witness ==
    /\ Ticked
    /\ leader[1].direction = "ToLeft"
    /\ leader[1].target_x = MulRat(config.width, 1, 10)

\* the boid at index i after its one integration under the force computed
\* from the state s
integrated(s, i) ==
    boid_update(apply_force(At(s.boids, i), boid_force(s, i)), s.config)

\* C6: a tick integrates every agent once, with the force computed from
\* the positions and velocities all agents had before the tick
C6_ForcesFromPreTickState ==
    [][ (op' = "update" /\ pc' # "panicked") =>
          /\ Len(boids') = Len(boids)
          /\ \A i \in 1 .. Len(boids) :
                boids'[i] = integrated(Sim(boids, config, leader'), i - 1) ]_vars

\* C6 witness: a tick has run with two flock members within the
\* cohesion radius of each other
C6_Witness ==
    /\ Ticked
    /\ \E i, j \in Agents :
          /\ i # j
          /\ ~boids[i].is_leader
          /\ ~boids[j].is_leader
          /\ distance_to(boids[i].position, boids[j].position) < config.cohesion_radius

\* C7: the leader's post-tick state is the one the tick gives it when the
\* non-leader agents are taken away
C7_LeaderIgnoresFlock ==
    [][ (op' = "update" /\ pc' # "panicked") =>
          boids'[1] = update(Sim(<< boids[1] >>, config, leader)).boids[1] ]_vars

\* C7 witness: a tick has run with a flock member within the separation
\* radius of the leader
C7_Witness ==
    /\ Ticked
    /\ \E i \in Agents :
          /\ ~boids[i].is_leader
          /\ distance_to(boids[1].position, boids[i].position) > 0
          /\ distance_to(boids[1].position, boids[i].position) < config.separation_radius

\* C8: Simulation::update never fails, whatever the leader's recorded index
C8_UpdateNeverFails == ~(op = "update" /\ pc = "panicked")

\* C9: construction leaves the leader at index 0 and num_boids - 1
\* non-leaders, num_boids agents in all, and does not fail
C9_ConstructionCount ==
    op = "new" =>
      /\ pc # "panicked"
      /\ Len(boids) = config.num_boids
      /\ boids[1] = new_leader(config)
      /\ \A i \in 2 .. Len(boids) : ~boids[i].is_leader
      /\ \A seed \in 0 .. MaxSeed :
            LET made == new(seed).sim
            IN  /\ Len(made.boids) = made.config.num_boids
                /\ made.boids[1] = new_leader(made.config)
                /\ \A i \in 2 .. Len(made.boids) : ~made.boids[i].is_leader

\* C9 witness: a construction with more than the minimum of 15 agents
C9_Witness ==
    /\ op = "new"
    /\ Len(boids) > 15
    /\ config.num_boids = Len(boids)

\* C10: reset leaves the leader at index 0 at its starting pose, the other
\* agents non-leaders, and the leader state as LeaderBird::new(0, config)
C10_ResetPostcondition ==
    op = "reset" =>
      /\ pc # "panicked"
      /\ boids[1] = new_leader(config)
      /\ \A i \in 2 .. Len(boids) : ~boids[i].is_leader
      /\ leader = Some(LeaderBirdNew(0, config))


\* C11: a resize whose target count equals the current count leaves the
\* agent collection unchanged: its length, its order and every agent's
\* position, velocity, acceleration and is_leader flag
C11_ResizeSameCountKeepsAgents ==
    [][ (op' = "resize" /\ config'.num_boids = Len(boids)) => boids' = boids ]_vars

\* C11 witness: a resize at one of the 24-column sizes below the starting
\* ones; every state that precedes it has 15 agents, the count the resize
\* asks for
C11_Witness ==
    /\ op = "resize"
    /\ term < Len(TerminalSizes) - 1
    /\ config.num_boids = 15
    /\ Len(boids) = 15


\* the boid at index i of the state s as Boid::update has it when it calls
\* bounce_off_boundaries: the force applied, the velocity limited, the
\* position integrated
pre_bounce(s, i) ==
    LET b == apply_force(At(s.boids, i), boid_force(s, i))
        v1 == limit(VAdd(b.velocity, b.acceleration), s.config.max_speed)
    IN  [b EXCEPT !.velocity = v1,
                  !.position = VAdd(b.position, v1),
                  !.acceleration = Zero]

\* one axis of the boundary handling as the claim states it: from the
\* integrated position p and velocity component v to the position q and
\* component w, under the bound of that axis
AxisReflected(p, v, q, w, bound) ==
    LET margin == Fx(1, 1)
    IN  /\ p < margin => q = margin /\ w = Abs(v) /\ w >= 0
        /\ p > bound - margin => q = bound - margin /\ w = -Abs(v) /\ w <= 0
        /\ (p >= margin /\ p <= bound - margin) => q = p /\ w = v
        /\ Abs(w) = Abs(v)

\* C12: in Boid::update's boundary handling, for each axis independently,
\* a position below margin is set to margin and the velocity component
\* becomes its absolute value; a position above bound - margin is set to
\* bound - margin and the component becomes the negated absolute value;
\* the component's magnitude is preserved and an axis that is within its
\* range keeps its position and velocity whatever the other axis does
C12_BoundaryReflection ==
    [][ (op' = "update" /\ pc' # "panicked") =>
          \A i \in 1 .. Len(boids) :
              LET m == pre_bounce(Sim(boids, config, leader'), i - 1)
                  b == boids'[i]
              IN  /\ AxisReflected(m.position.x, m.velocity.x,
                                   b.position.x, b.velocity.x, config.width)
                  /\ AxisReflected(m.position.y, m.velocity.y,
                                   b.position.y, b.velocity.y, config.height) ]_vars


\* C13: in every state reached from construction by update, reset, resize
\* and the renderer's bounds write-back, the agent collection is not
\* empty, the leader state is present and its boid_index is 0 and below
\* the number of agents, so boids[leader.boid_index] in
\* follow_leader_force is in range
C13_LeaderIndexInRange ==
    /\ Len(boids) >= 1
    /\ IsSome(leader)
    /\ leader[1].boid_index = 0
    /\ leader[1].boid_index < Len(boids)

\* C13 witness: a tick (follow_leader_force has indexed the leader for
\* every flock member) after a resize has grown the collection to 16
\* agents and a key has been handled
C13_Witness ==
    /\ Ticked
    /\ Len(boids) = 16
    /\ nKeys > 0
    /\ ~follow_leader_panics(sim)


\* C14: in every state the leader's target_x agrees with its direction
\* and the current bounds (width*0.9 when ToRight, width*0.1 when ToLeft)
\* and sine_amplitude = height*0.3
C14_LeaderTargetAgreesWithBounds ==
    pc # "panicked" =>
      /\ IsSome(leader)
      /\ leader[1].target_x =
            IF leader[1].direction = "ToRight"
              THEN MulRat(config.width, 9, 10)
              ELSE MulRat(config.width, 1, 10)
      /\ leader[1].sine_amplitude = MulRat(config.height, 3, 10)


\* the agents have just been drawn: App::render has updated the bounds and
\* painted the canvas
Drawn == pc = "event"

\* C15: at the moment the agents are drawn every agent's position lies
\* within the current arena, 0 <= x <= config.width and
\* 0 <= y <= config.height
C15_DrawnWithinArena ==
    Drawn =>
      \A i \in Agents :
          /\ 0 <= boids[i].position.x
          /\ boids[i].position.x <= config.width
          /\ 0 <= boids[i].position.y
          /\ boids[i].position.y <= config.height

====
